---------------------------- MODULE Spec2Model ----------------------------
(***************************************************************************)
(* Two-pass assembler of new.py: first_pass (label resolution),            *)
(* assemble_instruction (per-line encoder), format_binary and the          *)
(* assemble_file driver, with the process-wide symbol_table and last_cmp.  *)
(*                                                                         *)
(* A string is a sequence of one-character strings, so that strip, split,  *)
(* replace, endswith, isdigit and int are modelled by what they do to the  *)
(* characters.  None is the value None; str(None) is the text "None".      *)
(***************************************************************************)
EXTENDS Integers, Sequences, FiniteSets, TLC

VARIABLES
    symbol_table,   \* global dict: label text -> address            (line 22)
    last_cmp,       \* global: None or the operand pair of a CMP     (line 23)
    pc,             \* global pc of assemble_file                    (line 141)
    lines,          \* infile.readlines() of the current invocation  (line 143)
    binfile,        \* lines written to the open binfile              (line 147)
    hexfile,        \* lines written to the open hexfile              (line 147)
    idx,            \* position of pass 2's for loop (next line to encode)
    binary_code,    \* the last value line 151 assigned (None before any)
    encoded,        \* the index of the source line binary_code came from
    pcAt,           \* pcAt[k] = pc when pass 2 reached source line k
    phase,          \* "idle" | "pass2" | "exited"
    err,            \* which ValueError ended the process ("" while it runs)
    runs,           \* number of assemble_file invocations so far
    pool            \* the source lines the invocations draw from

vars == <<symbol_table, last_cmp, pc, lines, binfile, hexfile, idx, binary_code,
          encoded, pcAt, phase, err, runs, pool>>

\* None, as a value comparable with strings and tuples; str(None)
None == <<>>
NoneText == <<"N", "o", "n", "e">>

-----------------------------------------------------------------------------
(* Characters *)

Whitespace == {" ", "\t", "\n"}
DecDigits == <<"0", "1", "2", "3", "4", "5", "6", "7", "8", "9">>
HexDigitsUpper == DecDigits \o <<"A", "B", "C", "D", "E", "F">>
HexDigitsLower == DecDigits \o <<"a", "b", "c", "d", "e", "f">>
UpperLetters == <<"A", "B", "C", "D", "E", "F", "G", "H", "I", "J", "K", "L", "M",
                  "N", "O", "P", "Q", "R", "S", "T", "U", "V", "W", "X", "Y", "Z">>
LowerLetters == <<"a", "b", "c", "d", "e", "f", "g", "h", "i", "j", "k", "l", "m",
                  "n", "o", "p", "q", "r", "s", "t", "u", "v", "w", "x", "y", "z">>

IsIn(c, alphabet) == \E k \in 1..Len(alphabet) : alphabet[k] = c
PosIn(c, alphabet) == CHOOSE k \in 1..Len(alphabet) : alphabet[k] = c

\* str.isdigit(): non-empty and every character a digit
IsDigitStr(s) == s # <<>> /\ \A k \in 1..Len(s) : IsIn(s[k], DecDigits)

\* str.upper()
UpperChar(c) == IF IsIn(c, LowerLetters) THEN UpperLetters[PosIn(c, LowerLetters)] ELSE c
Upper(s) == [k \in 1..Len(s) |-> UpperChar(s[k])]

-----------------------------------------------------------------------------
(* String operations of the Python library used by the source *)

RECURSIVE LStripWs(_)
LStripWs(s) == IF s # <<>> /\ Head(s) \in Whitespace THEN LStripWs(Tail(s)) ELSE s

RECURSIVE RStripWs(_)
RStripWs(s) ==
    IF s # <<>> /\ s[Len(s)] \in Whitespace THEN RStripWs(SubSeq(s, 1, Len(s) - 1)) ELSE s

\* str.strip()
Strip(s) == RStripWs(LStripWs(s))

\* str.lstrip('-')
RECURSIVE LStripMinus(_)
LStripMinus(s) == IF s # <<>> /\ Head(s) = "-" THEN LStripMinus(Tail(s)) ELSE s

\* index of the first c in s, 0 when absent
FirstIndex(s, c) ==
    IF \E k \in 1..Len(s) : s[k] = c
    THEN CHOOSE k \in 1..Len(s) : s[k] = c /\ \A j \in 1..(k - 1) : s[j] # c
    ELSE 0

Contains(s, c) == FirstIndex(s, c) # 0

\* s.split(c)[0] and s.split(c, 1)[0]
BeforeFirst(s, c) == IF Contains(s, c) THEN SubSeq(s, 1, FirstIndex(s, c) - 1) ELSE s

\* s.split(c, 1)[1], for s containing c
AfterFirst(s, c) == SubSeq(s, FirstIndex(s, c) + 1, Len(s))

\* s.replace(c, "")
Remove(s, c) == SelectSeq(s, LAMBDA x : x # c)

\* s.endswith(c)
EndsWith(s, c) == s # <<>> /\ s[Len(s)] = c

\* s.startswith('0x')
StartsWith0x(s) == Len(s) >= 2 /\ s[1] = "0" /\ s[2] = "x"

\* first position of a whitespace character in s, Len(s) + 1 when there is none
FirstWs(s) ==
    IF \E k \in 1..Len(s) : s[k] \in Whitespace
    THEN CHOOSE k \in 1..Len(s) : s[k] \in Whitespace /\ \A j \in 1..(k - 1) : s[j] \notin Whitespace
    ELSE Len(s) + 1

\* str.split(): the maximal runs of non-whitespace characters
RECURSIVE Split(_)
Split(s) ==
    LET t == LStripWs(s) IN
    IF t = <<>> THEN <<>>
    ELSE <<SubSeq(t, 1, FirstWs(t) - 1)>> \o Split(SubSeq(t, FirstWs(t), Len(t)))

-----------------------------------------------------------------------------
(* Integer parsing and formatting *)

\* value of a string of digits of the given alphabet (base = Len(alphabet))
RECURSIVE DigitsValue(_, _)
DigitsValue(s, alphabet) ==
    IF s = <<>> THEN 0
    ELSE DigitsValue(SubSeq(s, 1, Len(s) - 1), alphabet) * Len(alphabet)
         + (PosIn(s[Len(s)], alphabet) - 1)

\* int(s): [ok |-> FALSE] stands for the ValueError int raises.  The line
\* alphabet of the model holds no '_' and no non-ASCII digit.
IntDec(s) ==
    LET body == IF s # <<>> /\ s[1] \in {"-", "+"} THEN Tail(s) ELSE s IN
    IF IsDigitStr(body)
    THEN [ok |-> TRUE,
          val |-> IF s[1] = "-" THEN 0 - DigitsValue(body, DecDigits)
                  ELSE DigitsValue(body, DecDigits)]
    ELSE [ok |-> FALSE, val |-> 0]

HexNorm(c) == IF IsIn(c, HexDigitsLower) THEN HexDigitsUpper[PosIn(c, HexDigitsLower)] ELSE c

\* int(s, 16) for s starting with '0x'
IntHex(s) ==
    LET body == [k \in 1..(Len(s) - 2) |-> HexNorm(s[k + 2])] IN
    IF body # <<>> /\ \A k \in 1..Len(body) : IsIn(body[k], HexDigitsUpper)
    THEN [ok |-> TRUE, val |-> DigitsValue(body, HexDigitsUpper)]
    ELSE [ok |-> FALSE, val |-> 0]

\* digits of n >= 0 in the base of the alphabet, no leading zeros
RECURSIVE ToDigits(_, _)
ToDigits(n, alphabet) ==
    IF n < Len(alphabet) THEN <<alphabet[n + 1]>>
    ELSE ToDigits(n \div Len(alphabet), alphabet) \o <<alphabet[(n % Len(alphabet)) + 1]>>

ZeroPad(s, width) ==
    IF Len(s) >= width THEN s ELSE [k \in 1..(width - Len(s)) |-> "0"] \o s

\* format(n, '0<width>b') for n >= 0
FormatBin(n, width) == ZeroPad(ToDigits(n, <<"0", "1">>), width)

\* str(n)
StrInt(n) == IF n < 0 THEN <<"-">> \o ToDigits(0 - n, DecDigits) ELSE ToDigits(n, DecDigits)

IsBinStr(s) == s # <<>> /\ \A k \in 1..Len(s) : s[k] \in {"0", "1"}

\* x & mask for a mask of the form 2^k - 1 (Python's & on unbounded
\* two's-complement integers, negative x included)
BitAnd(x, mask) == x % (mask + 1)

IMM18_MASK == 262143
IMM16_MASK == 65535
OFFSET_MASK == 134217727

\* x << 16
Shl16(x) == x * 65536

-----------------------------------------------------------------------------
(* Tables *)
M_ADD == <<"A", "D", "D">>
M_SUB == <<"S", "U", "B">>
M_MUL == <<"M", "U", "L">>
M_DIV == <<"D", "I", "V">>
M_MOD == <<"M", "O", "D">>
M_CMP == <<"C", "M", "P">>
M_AND == <<"A", "N", "D">>
M_OR == <<"O", "R">>
M_NOT == <<"N", "O", "T">>
M_MOV == <<"M", "O", "V">>
M_MOVU == <<"M", "O", "V", "U">>
M_MOVH == <<"M", "O", "V", "H">>
M_LSL == <<"L", "S", "L">>
M_LSR == <<"L", "S", "R">>
M_ASR == <<"A", "S", "R">>
M_NOP == <<"N", "O", "P">>
M_LD == <<"L", "D">>
M_ST == <<"S", "T">>
M_BEQ == <<"B", "E", "Q">>
M_BGT == <<"B", "G", "T">>
M_B == <<"B">>
M_CALL == <<"C", "A", "L", "L">>
M_RET == <<"R", "E", "T">>
M_END == <<"E", "N", "D">>
M_HLT == <<"H", "L", "T">>

OPCODES ==
    (M_ADD :> <<"0", "0", "0", "0", "0">>) @@
    (M_SUB :> <<"0", "0", "0", "0", "1">>) @@
    (M_MUL :> <<"0", "0", "0", "1", "0">>) @@
    (M_DIV :> <<"0", "0", "0", "1", "1">>) @@
    (M_MOD :> <<"0", "0", "1", "0", "0">>) @@
    (M_CMP :> <<"0", "0", "1", "0", "1">>) @@
    (M_AND :> <<"0", "0", "1", "1", "0">>) @@
    (M_OR :> <<"0", "0", "1", "1", "1">>) @@
    (M_NOT :> <<"0", "1", "0", "0", "0">>) @@
    (M_MOV :> <<"0", "1", "0", "0", "1">>) @@
    (M_MOVU :> <<"0", "1", "0", "0", "1">>) @@
    (M_MOVH :> <<"0", "1", "0", "0", "1">>) @@
    (M_LSL :> <<"0", "1", "0", "1", "0">>) @@
    (M_LSR :> <<"0", "1", "0", "1", "1">>) @@
    (M_ASR :> <<"0", "1", "1", "0", "0">>) @@
    (M_NOP :> <<"0", "1", "1", "0", "1">>) @@
    (M_LD :> <<"0", "1", "1", "1", "0">>) @@
    (M_ST :> <<"0", "1", "1", "1", "1">>) @@
    (M_BEQ :> <<"1", "0", "0", "0", "0">>) @@
    (M_BGT :> <<"1", "0", "0", "0", "1">>) @@
    (M_B :> <<"1", "0", "0", "1", "0">>) @@
    (M_CALL :> <<"1", "0", "0", "1", "1">>) @@
    (M_RET :> <<"1", "0", "1", "0", "0">>) @@
    (M_END :> <<"1", "1", "1", "1", "1">>) @@
    (M_HLT :> <<"1", "1", "1", "1", "1">>)

REGISTERS ==
    (<<"R", "0">> :> <<"0", "0", "0", "0">>) @@
    (<<"R", "1">> :> <<"0", "0", "0", "1">>) @@
    (<<"R", "2">> :> <<"0", "0", "1", "0">>) @@
    (<<"R", "3">> :> <<"0", "0", "1", "1">>) @@
    (<<"R", "4">> :> <<"0", "1", "0", "0">>) @@
    (<<"R", "5">> :> <<"0", "1", "0", "1">>) @@
    (<<"R", "6">> :> <<"0", "1", "1", "0">>) @@
    (<<"R", "7">> :> <<"0", "1", "1", "1">>) @@
    (<<"R", "8">> :> <<"1", "0", "0", "0">>) @@
    (<<"R", "9">> :> <<"1", "0", "0", "1">>) @@
    (<<"R", "1", "0">> :> <<"1", "0", "1", "0">>) @@
    (<<"R", "1", "1">> :> <<"1", "0", "1", "1">>) @@
    (<<"R", "1", "2">> :> <<"1", "1", "0", "0">>) @@
    (<<"R", "1", "3">> :> <<"1", "1", "0", "1">>) @@
    (<<"R", "1", "4">> :> <<"1", "1", "1", "0">>) @@
    (<<"R", "1", "5">> :> <<"1", "1", "1", "1">>)

\* dict.get(key) and dict.get(key, default)
Get(dict, key, default) == IF key \in DOMAIN dict THEN dict[key] ELSE default

\* how an f-string renders a table value or None
Text(x) == IF x = None THEN NoneText ELSE x

-----------------------------------------------------------------------------
(* format_binary, lines 42-47.  imm is None or <<n>>. *)

\* variant: the immediate masked to 16 bits instead of 18
format_binary_Mask16(opcode, i, rd, rs1, rs2, imm) ==
    IF imm # None
    THEN opcode \o i \o Text(rd) \o Text(rs1) \o FormatBin(BitAnd(imm[1], IMM16_MASK), 18)
    ELSE opcode \o i \o Text(rd) \o Text(rs1) \o Text(rs2) \o [k \in 1..14 |-> "0"]

format_binary(opcode, i, rd, rs1, rs2, imm) ==
    IF imm # None
    THEN opcode \o i \o Text(rd) \o Text(rs1) \o FormatBin(BitAnd(imm[1], IMM18_MASK), 18)
    ELSE opcode \o i \o Text(rd) \o Text(rs1) \o Text(rs2) \o [k \in 1..14 |-> "0"]

-----------------------------------------------------------------------------
(* assemble_instruction, lines 49-138.  The result is a record:            *)
(*   kind  "None" (return None), "str" (return a string), "ValueError"     *)
(*   val   the returned string                                             *)
(*   msg   which ValueError                                                *)
(*   cmp   last_cmp after the call                                         *)

Returns(val, cmp) == [kind |-> "str", val |-> val, msg |-> "", cmp |-> cmp]
ReturnsNone(cmp) == [kind |-> "None", val |-> <<>>, msg |-> "", cmp |-> cmp]
Raises(msg, cmp) == [kind |-> "ValueError", val |-> <<>>, msg |-> msg, cmp |-> cmp]

UnknownInstruction == "Unknown instruction"
InvalidSyntax == "Invalid syntax"
MissingComparison == "must follow a CMP instruction"
InvalidFormat == "Invalid instruction format"
InvalidLiteral == "invalid literal for int() with base 10 or 16"

Reg(tok) == Get(REGISTERS, Upper(tok), None)

ThreeOperandClass ==
    {M_ADD, M_SUB, M_MUL, M_DIV, M_LSL, M_LSR, M_ASR, M_AND, M_OR, M_MOD, M_LD, M_ST}

\* variant: the offset taken from the branch's own address, not the next word's
BranchWord_FromOwnPc(opcode, label, pc_, table) ==
    LET target_address == Get(table, label, 0)
        offset == target_address - pc_
    IN  opcode \o FormatBin(BitAnd(offset, OFFSET_MASK), 27)

\* the 27-bit offset field, lines 121-126 and 130-133
BranchWord(opcode, label, pc_, table) ==
    LET target_address == Get(table, label, 0)
        offset == target_address - (pc_ + 4)
    IN  opcode \o FormatBin(BitAnd(offset, OFFSET_MASK), 27)

\* lines 63-70
EncodeThreeOperand(opcode, parts, cmp) ==
    IF Len(parts) = 4 /\ IsDigitStr(LStripMinus(parts[4]))
    THEN IF IntDec(parts[4]).ok
         THEN Returns(format_binary(opcode, <<"1">>, Reg(parts[2]), Reg(parts[3]),
                                    <<"0", "0", "0", "0">>,
                                    <<BitAnd(IntDec(parts[4]).val, IMM18_MASK)>>), cmp)
         ELSE Raises(InvalidLiteral, cmp)
    ELSE IF Len(parts) = 4
    THEN Returns(format_binary(opcode, <<"0">>, Reg(parts[2]), Reg(parts[3]),
                               Reg(parts[4]), None), cmp)
    ELSE Raises(InvalidFormat, cmp)

\* lines 72-81
EncodeCmp(opcode, parts, cmp) ==
    IF Len(parts) = 3 /\ IsDigitStr(LStripMinus(parts[3]))
    THEN IF IntDec(parts[3]).ok
         THEN LET imm == BitAnd(IntDec(parts[3]).val, IMM18_MASK) IN
              Returns(format_binary(opcode, <<"1">>, <<"0", "0", "0", "0">>, Reg(parts[2]),
                                    <<"0", "0", "0", "0">>, <<imm>>),
                      <<Reg(parts[2]), StrInt(imm)>>)
         ELSE Raises(InvalidLiteral, cmp)
    ELSE IF Len(parts) = 3
    THEN Returns(format_binary(opcode, <<"0">>, <<"0", "0", "0", "0">>, Reg(parts[2]),
                               Reg(parts[3]), None),
                 <<Reg(parts[2]), Reg(parts[3])>>)
    ELSE Raises(InvalidFormat, cmp)

\* lines 83-90
EncodeUnary(opcode, parts, cmp) ==
    IF Len(parts) = 3 /\ IsDigitStr(LStripMinus(parts[3]))
    THEN IF IntDec(parts[3]).ok
         THEN Returns(format_binary(opcode, <<"1">>, Reg(parts[2]), <<"0", "0", "0", "0">>,
                                    <<"0", "0", "0", "0">>,
                                    <<BitAnd(IntDec(parts[3]).val, IMM18_MASK)>>), cmp)
         ELSE Raises(InvalidLiteral, cmp)
    ELSE IF Len(parts) = 3
    THEN Returns(format_binary(opcode, <<"0">>, Reg(parts[2]), <<"0", "0", "0", "0">>,
                               Reg(parts[3]), None), cmp)
    ELSE Raises(InvalidFormat, cmp)

\* the immediate MOVU/MOVH place in the word, lines 103-110
WideImm(inst, imm) ==
    IF inst = M_MOVU THEN BitAnd(imm, IMM16_MASK) ELSE BitAnd(Shl16(imm), IMM18_MASK)

\* lines 92-111
EncodeWide(inst, opcode, parts, cmp) ==
    IF Len(parts) = 3
    THEN LET imm_str == Strip(parts[3])
             parsed == IF StartsWith0x(imm_str) THEN IntHex(imm_str) ELSE IntDec(imm_str)
         IN  IF parsed.ok
             THEN Returns(format_binary(opcode, <<"1">>, Reg(parts[2]), <<"0", "0", "0", "0">>,
                                        <<"0", "0", "0", "0">>,
                                        <<WideImm(inst, parsed.val)>>), cmp)
             ELSE Raises(InvalidLiteral, cmp)
    ELSE Raises(InvalidFormat, cmp)

\* lines 114-126
EncodeCondBranch(opcode, parts, pc_, table, cmp) ==
    IF Len(parts) # 2 THEN Raises(InvalidSyntax, cmp)
    ELSE IF cmp = None THEN Raises(MissingComparison, cmp)
    ELSE Returns(BranchWord(opcode, parts[2], pc_, table), cmp)

\* variant: a label missing from the table is an error
EncodeJump_Strict(opcode, parts, pc_, table, cmp) ==
    IF Len(parts) = 2
    THEN IF parts[2] \in DOMAIN table
         THEN Returns(opcode \o FormatBin(BitAnd(table[parts[2]] - (pc_ + 4), OFFSET_MASK), 27),
                      cmp)
         ELSE Raises("Unresolved label", cmp)
    ELSE Raises(InvalidFormat, cmp)

\* lines 128-133
EncodeJump(opcode, parts, pc_, table, cmp) ==
    IF Len(parts) = 2
    THEN Returns(BranchWord(opcode, parts[2], pc_, table), cmp)
    ELSE Raises(InvalidFormat, cmp)

\* lines 58-138, parts holding at least the mnemonic
EncodeParts(parts, pc_, table, cmp) ==
    LET inst == parts[1] IN
    IF inst \notin DOMAIN OPCODES THEN Raises(UnknownInstruction, cmp)
    ELSE LET opcode == OPCODES[inst] IN
         IF inst \in ThreeOperandClass THEN EncodeThreeOperand(opcode, parts, cmp)
         ELSE IF inst = M_CMP THEN EncodeCmp(opcode, parts, cmp)
         ELSE IF inst \in {M_NOT, M_MOV} THEN EncodeUnary(opcode, parts, cmp)
         ELSE IF inst \in {M_MOVU, M_MOVH} THEN EncodeWide(inst, opcode, parts, cmp)
         ELSE IF inst \in {M_BEQ, M_BGT} THEN EncodeCondBranch(opcode, parts, pc_, table, cmp)
         ELSE IF inst \in {M_B, M_CALL} THEN EncodeJump(opcode, parts, pc_, table, cmp)
         ELSE IF inst \in {M_RET, M_NOP, M_HLT, M_END}
         THEN Returns(opcode \o [k \in 1..27 |-> "0"], cmp)
         ELSE Raises(InvalidFormat, cmp)

\* lines 51-57: the tokens left after the label token is dropped
PartsOf(line) ==
    LET parts == Split(Remove(line, ",")) IN
    IF parts # <<>> /\ EndsWith(parts[1], ":") THEN Tail(parts) ELSE parts

assemble_instruction(line, pc_, table, cmp) ==
    IF PartsOf(line) = <<>> THEN ReturnsNone(cmp)
    ELSE EncodeParts(PartsOf(line), pc_, table, cmp)

-----------------------------------------------------------------------------
(* first_pass, lines 26-40 *)

\* variant: an existing key keeps its value
Put_KeepFirst(dict, key, val) ==
    [x \in (DOMAIN dict) \cup {key} |-> IF x \in DOMAIN dict THEN dict[x] ELSE val]

Put(dict, key, val) == [x \in (DOMAIN dict) \cup {key} |-> IF x = key THEN val ELSE dict[x]]

\* pc & ~0b11
AlignDown(n) == n - (n % 4)

\* line 30
Stripped(line) == BeforeFirst(Strip(line), "#")

\* lines 30-40, one iteration of the loop: the table and the local pc after it
FirstPassLine(line, table, pc1) ==
    LET stripped == Stripped(line) IN
    IF stripped = <<>> THEN [table |-> table, pc |-> pc1]
    ELSE IF Contains(stripped, ":")
    THEN LET label == BeforeFirst(stripped, ":")
             rest == AfterFirst(stripped, ":")
         IN  [table |-> Put(table, Strip(label), AlignDown(pc1)),
              pc |-> IF Strip(rest) # <<>> THEN pc1 + 4 ELSE pc1]
    ELSE [table |-> table, pc |-> pc1 + 4]

RECURSIVE FirstPassFrom(_, _, _, _)
FirstPassFrom(ls, k, table, pc1) ==
    IF k > Len(ls) THEN table
    ELSE FirstPassFrom(ls, k + 1, FirstPassLine(ls[k], table, pc1).table,
                       FirstPassLine(ls[k], table, pc1).pc)

\* first_pass's local pc when its loop reaches line k
RECURSIVE FirstPassPcAt(_, _)
FirstPassPcAt(ls, k) ==
    IF k <= 1 THEN 0
    ELSE FirstPassLine(ls[k - 1], <<>>, FirstPassPcAt(ls, k - 1)).pc

\* the global symbol_table after first_pass(ls), the local pc starting at 0
first_pass(ls, table) == FirstPassFrom(ls, 1, table, 0)

-----------------------------------------------------------------------------
(* assemble_file, lines 140-161 *)

BinValue(s) == DigitsValue(s, <<"0", "1">>)

\* format(int(s, 2), '08X') for a string s of 17 to 32 binary digits.  TLC's
\* integers are 32-bit signed, so the value is carried as its high part and
\* its low 16 bits.
Hex08(s) ==
    ZeroPad(ToDigits(BinValue(SubSeq(s, 1, Len(s) - 16)), HexDigitsUpper), 4)
    \o ZeroPad(ToDigits(BinValue(SubSeq(s, Len(s) - 15, Len(s))), HexDigitsUpper), 4)

MaxLines == 3
MaxRuns == 2

Programs(p) == UNION {[1..n -> p] : n \in 0..MaxLines}

\* lines 142-148: readlines, first_pass, both output files opened for
\* writing (truncated), pc = 0
Invoke ==
    /\ phase = "idle"
    /\ runs < MaxRuns
    /\ \E ls \in Programs(pool) :
        /\ lines' = ls
        /\ symbol_table' = first_pass(ls, symbol_table)
    /\ binfile' = <<>>
    /\ hexfile' = <<>>
    /\ pc' = 0
    /\ idx' = 1
    /\ binary_code' = None
    /\ encoded' = 0
    /\ pcAt' = <<>>
    /\ phase' = "pass2"
    /\ runs' = runs + 1
    /\ UNCHANGED <<last_cmp, err, pool>>

InvalidBinary == "invalid literal for int() with base 2"

\* variant: the error is printed and the loop goes on with the next line
HandleValueError_Continue(msg) ==
    /\ phase' = phase
    /\ err' = msg
    /\ pc' = pc
    /\ idx' = idx + 1

\* lines 159-161: the error is printed and sys.exit(1) ends the process; the
\* with statement closes both files as they are
HandleValueError(msg) ==
    /\ phase' = "exited"
    /\ err' = msg
    /\ UNCHANGED <<pc, idx>>

\* lines 152-157: a truthy result is written to both files
WriteResult(code) ==
    /\ binfile' = Append(binfile, code)
    /\ IF IsBinStr(code)
       THEN /\ hexfile' = Append(hexfile, Hex08(code))
            /\ pc' = pc + 4
            /\ idx' = idx + 1
            /\ UNCHANGED <<phase, err>>
       ELSE /\ hexfile' = hexfile
            /\ HandleValueError(InvalidBinary)

\* lines 149-161, one iteration of the loop
EncodeLine ==
    /\ phase = "pass2"
    /\ idx <= Len(lines)
    /\ LET r == assemble_instruction(lines[idx], pc, symbol_table, last_cmp) IN
        /\ last_cmp' = r.cmp
        /\ pcAt' = Append(pcAt, pc)
        /\ IF r.kind = "ValueError"
           THEN /\ HandleValueError(r.msg)
                /\ UNCHANGED <<binfile, hexfile, binary_code, encoded>>
           ELSE /\ binary_code' = (IF r.kind = "None" THEN None ELSE r.val)
                /\ encoded' = idx
                /\ IF r.kind = "None" \/ r.val = <<>>
                   THEN /\ idx' = idx + 1
                        /\ UNCHANGED <<binfile, hexfile, pc, phase, err>>
                   ELSE WriteResult(r.val)
    /\ UNCHANGED <<symbol_table, lines, runs, pool>>

\* the loop ends, the with statement closes the files and assemble_file
\* returns: its locals and the two file objects are gone, the globals stay
Return ==
    /\ phase = "pass2"
    /\ idx > Len(lines)
    /\ phase' = "idle"
    /\ lines' = <<>>
    /\ binfile' = <<>>
    /\ hexfile' = <<>>
    /\ idx' = 1
    /\ binary_code' = None
    /\ encoded' = 0
    /\ pcAt' = <<>>
    /\ UNCHANGED <<symbol_table, last_cmp, pc, err, runs, pool>>

Next == Invoke \/ EncodeLine \/ Return

\* the process before the first invocation
InitWith(p) ==
    /\ symbol_table = <<>>
    /\ last_cmp = None
    /\ pc = 0          \* unbound until line 148 binds it to 0
    /\ lines = <<>>
    /\ binfile = <<>>
    /\ hexfile = <<>>
    /\ idx = 1
    /\ binary_code = None
    /\ encoded = 0
    /\ pcAt = <<>>
    /\ phase = "idle"
    /\ err = ""
    /\ runs = 0
    /\ pool = p

-----------------------------------------------------------------------------
(* Source lines *)

RECURSIVE Join(_)
Join(tokens) ==
    IF tokens = <<>> THEN <<>>
    ELSE IF Len(tokens) = 1 THEN tokens[1]
    ELSE tokens[1] \o <<" ">> \o Join(Tail(tokens))

\* a line as readlines returns it: the tokens, single spaces, a newline
Src(tokens) == Join(tokens) \o <<"\n">>

R1 == <<"R", "1">>
R2 == <<"R", "2">>
R3 == <<"R", "3">>
R99 == <<"R", "9", "9">>
L == <<"L">>
LDef == <<"L", ":">>

\* integer literals, with the value Python's int gives each
Lit_m5 == <<"-", "5">>
Lit_0 == <<"0">>
Lit_1 == <<"1">>
Lit_m1 == <<"-", "1">>
Lit_3 == <<"3">>
Lit_4 == <<"4">>
Lit_m4 == <<"-", "4">>
Lit_5 == <<"5">>
Lit_7 == <<"7">>
Lit_65535 == <<"6", "5", "5", "3", "5">>
Lit_262143 == <<"2", "6", "2", "1", "4", "3">>
Lit_262149 == <<"2", "6", "2", "1", "4", "9">>
Lit_m262145 == <<"-", "2", "6", "2", "1", "4", "5">>
Lit_mm5 == <<"-", "-", "5">>
Lit_0x5 == <<"0", "x", "5">>
Lit_0x1ffff == <<"0", "x", "1", "F", "f", "f", "f">>

DecLiteral ==
    (Lit_m5 :> -5) @@ (Lit_0 :> 0) @@ (Lit_1 :> 1) @@ (Lit_m1 :> -1) @@ (Lit_3 :> 3) @@
    (Lit_4 :> 4) @@ (Lit_m4 :> -4) @@ (Lit_5 :> 5) @@ (Lit_7 :> 7) @@
    (Lit_65535 :> 65535) @@ (Lit_262143 :> 262143) @@ (Lit_262149 :> 262149) @@
    (Lit_m262145 :> -262145)

HexLiteral == (Lit_0x5 :> 5) @@ (Lit_0x1ffff :> 131071)

\* labels and branches
BranchPool ==
    { Src(<<LDef>>),
      Src(<<LDef, M_NOP>>),
      Src(<<M_B, L>>),
      Src(<<M_CALL, L>>),
      Src(<<M_CMP, R1, R2>>),
      Src(<<M_BEQ, L>>),
      Src(<<M_BGT, L>>) }

\* lines the two passes read differently: "RET :" and a line of commas
LabelPool ==
    { Src(<<LDef>>),
      Src(<<LDef, M_NOP>>),
      Src(<<M_B, L>>),
      Src(<<M_RET, <<":">>>>),
      Src(<<<<",">>>>),
      <<"#", "\n">> }

\* operand forms of each instruction class
EncodePools ==
    { { Src(<<M_ADD, R1, R2, Lit_m5>>),
        Src(<<M_SUB, R1 \o <<",">>, R2 \o <<",">>, Lit_262149>>),
        Src(<<M_MUL, <<"r", "1">>, <<"r", "2">>, Lit_0>>),
        Src(<<M_DIV, R1, R2, R3>>),
        Src(<<M_MOD, R1, R2, R99>>) },
      { Src(<<M_AND, R1, R2, Lit_262143>>),
        Src(<<M_OR, R1, R2, Lit_m262145>>),
        Src(<<M_LSL, R1, R2, Lit_1>>),
        Src(<<M_LSR, R1, R2, R3>>),
        Src(<<M_ASR, R1, R2, Lit_m1>>) },
      { Src(<<M_LD, R1, R2, Lit_4>>),
        Src(<<M_ST, R1, R2, Lit_m4>>),
        Src(<<M_CMP, R1, Lit_5>>),
        Src(<<M_CMP, R1, R2>>),
        Src(<<M_CMP, R1, Lit_0x5>>) },
      { Src(<<M_NOT, R1, Lit_m1>>),
        Src(<<M_NOT, R1, R2>>),
        Src(<<M_MOV, R1, Lit_5>>),
        Src(<<M_MOV, R1, R2>>),
        Src(<<M_MOV, R99, Lit_7>>) },
      { Src(<<M_MOVU, R1, Lit_0x1ffff>>),
        Src(<<M_MOVU, R1, Lit_m1>>),
        Src(<<M_MOVH, R1, Lit_3>>),
        Src(<<M_MOVH, R1, Lit_0x5>>),
        Src(<<M_MOVU, R1, Lit_65535>>) } }

\* lines the encoder rejects, among lines it accepts
ErrorPool ==
    { Src(<<M_NOP>>),
      Src(<<LDef, M_HLT>>),
      Src(<<<<"F", "O", "O">>, R1, R2>>),
      Src(<<M_ADD, R1>>),
      Src(<<M_BEQ, L>>),
      Src(<<M_MOV, R1, Lit_mm5>>),
      Src(<<M_MOV, R1, R99>>) }

Init == InitWith(BranchPool)
Spec == Init /\ [][Next]_vars

InitLabels == InitWith(LabelPool)
SpecLabels == InitLabels /\ [][Next]_vars

InitEncode == \E p \in EncodePools : InitWith(p)
SpecEncode == InitEncode /\ [][Next]_vars

InitErrors == InitWith(ErrorPool)
SpecErrors == InitErrors /\ [][Next]_vars

-----------------------------------------------------------------------------
(* Vocabulary of the properties *)

\* the source line pass 2 reached last (0 before the first)
Attempted == Len(pcAt)

PartsAt(k) == PartsOf(lines[k])

\* line k is mnemonic + one operand, the mnemonic among ms
IsBranchLine(k, ms) ==
    /\ PartsAt(k) # <<>>
    /\ PartsAt(k)[1] \in ms
    /\ Len(PartsAt(k)) = 2

\* a CMP stands on a line before line k of the current source
CmpBefore(k) == \E j \in 1..(k - 1) : PartsAt(j) # <<>> /\ PartsAt(j)[1] = M_CMP

\* first_pass takes line j for a definition of the label name
DefinesLabel(j, name) ==
    /\ Contains(Stripped(lines[j]), ":")
    /\ Strip(BeforeFirst(Stripped(lines[j]), ":")) = name

\* the last line of the current source defining name, 0 when there is none
LastDef(name) ==
    IF \E j \in 1..Len(lines) : DefinesLabel(j, name)
    THEN CHOOSE j \in 1..Len(lines) :
            DefinesLabel(j, name) /\ \A i \in (j + 1)..Len(lines) : ~DefinesLabel(i, name)
    ELSE 0

\* the value of the 27 bits after the opcode
Field27(word) == BinValue(SubSeq(word, 6, 32))

\* the value of the low 18 bits
Low18(word) == BinValue(SubSeq(word, 15, 32))

\* pass 2 has gone through every line without an error
RunCompleted == phase = "pass2" /\ idx > Len(lines)

-----------------------------------------------------------------------------
(* C1 *)

\* C1: when pass 2 completes without error, every label first_pass recorded
\* has the address pass 2's pc had on reaching the label's line (4 times the
\* words emitted before it): at every line defining a label the two passes'
\* pcs agree.
C1_LabelAddressesAgree ==
    RunCompleted =>
        /\ \A name \in DOMAIN symbol_table :
              LastDef(name) # 0 => symbol_table[name] = pcAt[LastDef(name)]
        /\ \A k \in 1..Len(lines) :
              Contains(Stripped(lines[k]), ":") => FirstPassPcAt(lines, k) = pcAt[k]

-----------------------------------------------------------------------------
(* C2 *)

\* C2: within one run, BEQ/BGT with one label operand fails with
\* MissingComparison when no CMP was encoded on an earlier line of the
\* source, and emits a word when one was.
C2_BranchNeedsCmpInRun ==
    (Attempted >= 1 /\ IsBranchLine(Attempted, {M_BEQ, M_BGT})) =>
        IF CmpBefore(Attempted)
        THEN phase # "exited" /\ encoded = Attempted /\ binary_code # None
        ELSE phase = "exited" /\ err = MissingComparison

-----------------------------------------------------------------------------
(* C3 *)

\* the outcome of assembling ls in a process that assembled nothing before
RECURSIVE FreshFrom(_, _, _, _, _, _, _)
FreshFrom(ls, k, pc_, table, cmp, bin, hex) ==
    IF k > Len(ls) THEN [bin |-> bin, hex |-> hex, err |-> ""]
    ELSE LET r == assemble_instruction(ls[k], pc_, table, cmp) IN
         IF r.kind = "ValueError" THEN [bin |-> bin, hex |-> hex, err |-> r.msg]
         ELSE IF r.kind = "None" THEN FreshFrom(ls, k + 1, pc_, table, r.cmp, bin, hex)
         ELSE IF IsBinStr(r.val)
         THEN FreshFrom(ls, k + 1, pc_ + 4, table, r.cmp,
                        Append(bin, r.val), Append(hex, Hex08(r.val)))
         ELSE [bin |-> Append(bin, r.val), hex |-> hex, err |-> InvalidBinary]

FreshOutcome(ls) == FreshFrom(ls, 1, 0, first_pass(ls, <<>>), None, <<>>, <<>>)

\* C3: the outcome of every invocation (the lines written, the error raised)
\* is the outcome the same source has as the first invocation of a process.
C3_RunsIndependent ==
    (RunCompleted \/ phase = "exited") =>
        [bin |-> binfile, hex |-> hexfile, err |-> err] = FreshOutcome(lines)

-----------------------------------------------------------------------------
(* C4 *)

\* C4: every line written to the binary stream is 32 characters, each '0'
\* or '1'.
C4_BinaryLinesAreBits ==
    \A k \in 1..Len(binfile) :
        /\ Len(binfile[k]) = 32
        /\ \A c \in 1..Len(binfile[k]) : binfile[k][c] \in {"0", "1"}

-----------------------------------------------------------------------------
(* C5 *)

\* the hex digit of the d-th group of four bits of word
Nibble(word, d) == HexDigitsUpper[BinValue(SubSeq(word, 4 * d - 3, 4 * d)) + 1]

\* C5: in every state of a run, a run ended by an error included, the two
\* streams hold the same number of lines, pc is 4 times that number and the
\* k-th hex line is the 8-digit uppercase hexadecimal of the k-th binary line.
C5_StreamsParallel ==
    (phase \in {"pass2", "exited"}) =>
        /\ Len(binfile) = Len(hexfile)
        /\ pc = 4 * Len(binfile)
        /\ \A k \in 1..Len(hexfile) :
              /\ Len(hexfile[k]) = 8
              /\ \A d \in 1..8 : hexfile[k][d] = Nibble(binfile[k], d)

-----------------------------------------------------------------------------
(* C6 *)

\* a branch, jump or call to the label of a line of the current source,
\* which the encoder accepts (BEQ/BGT: after a CMP of the source)
BranchToDefined(k) ==
    /\ IsBranchLine(k, {M_B, M_CALL, M_BEQ, M_BGT})
    /\ LastDef(PartsAt(k)[2]) # 0
    /\ PartsAt(k)[1] \in {M_BEQ, M_BGT} => CmpBefore(k)

\* C6: B, CALL, BEQ and BGT (after a CMP) at address pc to a label the source
\* defines at address t are encoded as the opcode followed by the 27-bit
\* value (t - (pc + 4)) mod 2^27, the definition before or after the branch.
C6_BranchOffset ==
    (Attempted >= 1 /\ BranchToDefined(Attempted)) =>
        /\ encoded = Attempted
        /\ binary_code # None
        /\ Len(binary_code) = 32
        /\ SubSeq(binary_code, 1, 5) = OPCODES[PartsAt(Attempted)[1]]
        /\ Field27(binary_code) =
              (symbol_table[PartsAt(Attempted)[2]] - (pcAt[Attempted] + 4))
                  % (OFFSET_MASK + 1)

\* a conditional branch encoded before the line that defines its label
C6_Witness ==
    /\ Attempted >= 1
    /\ BranchToDefined(Attempted)
    /\ PartsAt(Attempted)[1] = M_BEQ
    /\ LastDef(PartsAt(Attempted)[2]) > Attempted
    /\ encoded = Attempted
    /\ binary_code # None

-----------------------------------------------------------------------------
(* C7 *)

\* C7: when assemble_instruction fails on a line the run ends there: nothing
\* is written for that line, no step follows the exit, and up to the exit
\* the lines written earlier stay as they are.
C7_ErrorEndsRun ==
    [][ /\ phase # "exited"
        /\ (/\ phase = "pass2"
            /\ idx <= Len(lines)
            /\ assemble_instruction(lines[idx], pc, symbol_table, last_cmp).kind
                  = "ValueError")
           => (phase' = "exited" /\ binfile' = binfile /\ hexfile' = hexfile)
        /\ (phase = "pass2" /\ phase' \in {"pass2", "exited"}) =>
              /\ Len(binfile') >= Len(binfile)
              /\ SubSeq(binfile', 1, Len(binfile)) = binfile
              /\ Len(hexfile') >= Len(hexfile)
              /\ SubSeq(hexfile', 1, Len(hexfile)) = hexfile
      ]_vars

\* the encoder failed after lines were written and before the last line
C7_Witness ==
    /\ phase = "exited"
    /\ err \in {UnknownInstruction, MissingComparison, InvalidFormat}
    /\ binfile # <<>>
    /\ Len(binfile) = Len(hexfile)
    /\ Attempted < Len(lines)

-----------------------------------------------------------------------------
(* C8 *)

NarrowImmClass == ThreeOperandClass \cup {M_CMP, M_NOT, M_MOV}

\* line k is a register-immediate instruction the encoder accepts: the
\* immediate is its last operand
IsImmLine(k) ==
    /\ PartsAt(k) # <<>>
    /\ \/ /\ PartsAt(k)[1] \in ThreeOperandClass
          /\ Len(PartsAt(k)) = 4
          /\ PartsAt(k)[4] \in DOMAIN DecLiteral
       \/ /\ PartsAt(k)[1] \in {M_CMP, M_NOT, M_MOV}
          /\ Len(PartsAt(k)) = 3
          /\ PartsAt(k)[3] \in DOMAIN DecLiteral
       \/ /\ PartsAt(k)[1] \in {M_MOVU, M_MOVH}
          /\ Len(PartsAt(k)) = 3
          /\ PartsAt(k)[3] \in DOMAIN DecLiteral \cup DOMAIN HexLiteral

ImmValue(k) ==
    LET tok == PartsAt(k)[Len(PartsAt(k))] IN
    IF tok \in DOMAIN DecLiteral THEN DecLiteral[tok] ELSE HexLiteral[tok]

\* C8 as stated: for every register-immediate instruction, MOVU and MOVH
\* included, the immediate-flag bit is 1 and the low 18 bits are
\* value & 0x3FFFF.
C8_Original ==
    (Attempted >= 1 /\ IsImmLine(Attempted)) =>
        /\ encoded = Attempted
        /\ binary_code # None
        /\ binary_code[6] = "1"
        /\ Low18(binary_code) = ImmValue(Attempted) % (IMM18_MASK + 1)

\* C8 amended: the immediate-flag bit is 1 for every register-immediate
\* instruction; the low 18 bits are value & 0x3FFFF for the ADD class, CMP,
\* NOT and MOV, value & 0xFFFF for MOVU and (value << 16) & 0x3FFFF for MOVH.
C8_ImmediateField ==
    (Attempted >= 1 /\ IsImmLine(Attempted)) =>
        /\ encoded = Attempted
        /\ binary_code # None
        /\ Len(binary_code) = 32
        /\ binary_code[6] = "1"
        /\ Low18(binary_code) =
              IF PartsAt(Attempted)[1] \in NarrowImmClass
              THEN ImmValue(Attempted) % (IMM18_MASK + 1)
              ELSE IF PartsAt(Attempted)[1] = M_MOVU
              THEN ImmValue(Attempted) % (IMM16_MASK + 1)
              ELSE (ImmValue(Attempted) * (IMM16_MASK + 1)) % (IMM18_MASK + 1)

\* a negative immediate of the ADD class has been encoded
C8_Witness ==
    /\ Attempted >= 1
    /\ IsImmLine(Attempted)
    /\ PartsAt(Attempted)[1] \in ThreeOperandClass
    /\ ImmValue(Attempted) < 0
    /\ encoded = Attempted
    /\ binary_code # None

-----------------------------------------------------------------------------
(* C9 *)

\* C9: a branch, jump or call (BEQ/BGT after a CMP) whose label is no key of
\* the symbol table raises nothing: it is encoded against address 0, the
\* word is written and the run goes on to the next line.
C9_UnresolvedLabelIsZero ==
    (/\ Attempted >= 1
     /\ IsBranchLine(Attempted, {M_B, M_CALL, M_BEQ, M_BGT})
     /\ PartsAt(Attempted)[1] \in {M_BEQ, M_BGT} => CmpBefore(Attempted)
     /\ PartsAt(Attempted)[2] \notin DOMAIN symbol_table) =>
        /\ phase # "exited"
        /\ err = ""
        /\ encoded = Attempted
        /\ idx = Attempted + 1
        /\ binfile # <<>>
        /\ binfile[Len(binfile)] = binary_code
        /\ SubSeq(binary_code, 1, 5) = OPCODES[PartsAt(Attempted)[1]]
        /\ Field27(binary_code) = (0 - (pcAt[Attempted] + 4)) % (OFFSET_MASK + 1)

\* a jump to a label no line defines has been encoded at a non-zero pc
C9_Witness ==
    /\ Attempted >= 2
    /\ IsBranchLine(Attempted, {M_B, M_CALL})
    /\ PartsAt(Attempted)[2] \notin DOMAIN symbol_table
    /\ pcAt[Attempted] > 0
    /\ encoded = Attempted

-----------------------------------------------------------------------------
(* C10 *)

\* while pass 2 runs: every label of the source is in the table with the
\* address first_pass had at its last defining line, every address is a
\* multiple of 4, and a branch to such a label is encoded against it
C10_TableComplete ==
    (phase = "pass2") =>
        /\ \A j \in 1..Len(lines) :
              Contains(Stripped(lines[j]), ":") =>
                  LET name == Strip(BeforeFirst(Stripped(lines[j]), ":")) IN
                  /\ name \in DOMAIN symbol_table
                  /\ symbol_table[name] = FirstPassPcAt(lines, LastDef(name))
        /\ \A name \in DOMAIN symbol_table : symbol_table[name] % 4 = 0
        /\ (Attempted >= 1 /\ BranchToDefined(Attempted)) =>
              /\ encoded = Attempted
              /\ binary_code # None
              /\ Field27(binary_code) =
                    (FirstPassPcAt(lines, LastDef(PartsAt(Attempted)[2]))
                        - (pcAt[Attempted] + 4)) % (OFFSET_MASK + 1)

\* C10: the symbol table is complete before pass 2 starts and no step of
\* pass 2 changes it; of several definitions of a label the last wins for
\* every reference, wherever it stands; every address is a multiple of 4.
C10_TableFixedLastWins ==
    /\ []C10_TableComplete
    /\ [][phase = "pass2" => symbol_table' = symbol_table]_vars

\* a jump between two definitions of its label has been encoded
C10_Witness ==
    /\ phase = "pass2"
    /\ Attempted >= 2
    /\ BranchToDefined(Attempted)
    /\ encoded = Attempted
    /\ \E i \in 1..(Attempted - 1) : DefinesLabel(i, PartsAt(Attempted)[2])
    /\ LastDef(PartsAt(Attempted)[2]) > Attempted

=============================================================================
